---- MODULE Spec2Model ----
(***************************************************************************)
(* Model of linksender.py: the menu loop of main(), validate_link,         *)
(* fetch_videos_info, send_video_info and format_duration.                 *)
(*                                                                         *)
(* Strings that the code inspects (the entered link, the menu choice, the  *)
(* rendered duration) are sequences of tokens or characters; dictionaries  *)
(* are TLA+ records holding only the keys that are present, so that        *)
(* `'k' in d` is `"k" \in DOMAIN d`.  Python's None is the empty tuple and *)
(* a value that may be None is wrapped as a one-element tuple.             *)
(*                                                                         *)
(* The program is sequential and blocks in input(), extract_info(),        *)
(* bot.send_*() and time.sleep().  pc names the call the program is        *)
(* blocked in; one action is the return (or the raise) of that call        *)
(* together with all the code that runs up to the next blocking call.      *)
(* trace is the history of the current loop iteration: what was printed    *)
(* and which external calls were made, in order.                           *)
(***************************************************************************)
EXTENDS Integers, Sequences, FiniteSets, TLC

VARIABLES pc, choice, link, entries, ei, acc, videos, error, idx, trace,
          exitStatus, interrupted, badChoices

vars == <<pc, choice, link, entries, ei, acc, videos, error, idx, trace,
          exitStatus, interrupted, badChoices>>

\* ------------------------------------------------------------------ bounds
\* The longest listing the extractor returns.
MaxEntries == 2
\* The longest duration (seconds) rendered under SpecFmt.
MaxSeconds == 3725
\* Invalid menu inputs typed in one iteration.
MaxBadChoices == 1

\* --------------------------------------------------------------- constants
None == <<>>
Some(x) == <<x>>

TELEGRAM_CHAT_ID == "6956029558"

MENU == "MENU"
InvalidChoiceLine == "Invalid choice. Please enter 0, 1, 2 or 3."
ByeLine == "Exiting... Bye!"
InterruptByeLine == "\nExiting... Bye!"
InvalidLinkLine == "Invalid YouTube link"
NoVideosLine == "No videos found."
FetchingLine == "Fetching videos from given link..."
RetryLine == "Retry sending failed message."
DoneLine == "Done! All videos sent successfully."

\* ------------------------------------------------------------------ events
EvPrint(line) == [ev |-> "print", line |-> line]
EvExtract(url, flat, entry) ==
    [ev |-> "extract_info", url |-> url, extract_flat |-> flat, entry |-> entry]
EvExtractResult(entry, outcome) ==
    [ev |-> "extract_result", entry |-> entry, outcome |-> outcome]
EvNotify(video, n) == [ev |-> "send_video_info", video |-> video, n |-> n]
EvNotifyReturn(ok) == [ev |-> "send_video_info_return", ok |-> ok]
EvTelegramResult(outcome) == [ev |-> "telegram_result", outcome |-> outcome]
EvSleep == [ev |-> "sleep"]
EvExit(status) == [ev |-> "exit", status |-> status]
EvTraceback == [ev |-> "traceback"]

\* ------------------------------------------------- input(), str.strip()
IsSpace(tok) == tok = " "

RECURSIVE LStrip(_)
LStrip(s) == IF s # <<>> /\ IsSpace(Head(s)) THEN LStrip(Tail(s)) ELSE s

RECURSIVE RStrip(_)
RStrip(s) ==
    IF s # <<>> /\ IsSpace(s[Len(s)]) THEN RStrip(SubSeq(s, 1, Len(s) - 1)) ELSE s

Strip(s) == RStrip(LStrip(s))

\* What the user may type at the menu prompt, as tokens.
ChoiceInputs ==
    { <<"0">>, <<"1">>, <<"2">>, <<"3">>, <<" ", "2", " ">>, <<"9">>, <<>> }

\* What the user may type at the link prompt, as tokens: a token is a scheme,
\* "www.", a host-and-path prefix, a run of [\w-] characters, or other text.
Links ==
    { <<"https://", "www.", "youtube.com/watch?v=", "abc123">>,
      <<" ", "youtu.be/", "abc123", " ">>,
      <<"youtube.com/playlist?list=", "PL1">>,
      <<"http://", "youtube.com/channel/", "UC1">>,
      <<"www.", "youtu.be/", "abc123", "?x y">>,
      <<"youtube.com/c/", "?", "name">>,
      <<"youtube.com/watch?v=">>,
      <<"see ", "youtu.be/", "abc123">>,
      <<"youtube.com/user/", "?">>,
      <<>> }

\* The tokens that are runs of [\w-] characters.
WordTokens == {"abc123", "PL1", "UC1", "name"}

\* ---------------------------------------------------------- validate_link
Schemes == {"http://", "https://"}

\* (https?://)? : an optional leading scheme.
SkipScheme(s) == IF s # <<>> /\ Head(s) \in Schemes THEN Tail(s) ELSE s

\* (www\.)? : an optional "www.".
SkipWww(s) == IF s # <<>> /\ Head(s) = "www." THEN Tail(s) ELSE s

\* prefix [\w-]+ , matched at the start of s; anything may follow.
MatchPrefix(s, prefixes) ==
    LET r == SkipWww(SkipScheme(s))
    IN  /\ Len(r) >= 2
        /\ r[1] \in prefixes
        /\ r[2] \in WordTokens

YOUTUBE_VIDEO_REGEX(s) == MatchPrefix(s, {"youtube.com/watch?v=", "youtu.be/"})
YOUTUBE_PLAYLIST_REGEX(s) == MatchPrefix(s, {"youtube.com/playlist?list="})
YOUTUBE_CHANNEL_REGEX(s) ==
    MatchPrefix(s, {"youtube.com/channel/", "youtube.com/c/", "youtube.com/user/"})

\* Mutant: re.search in place of re.match, the pattern may start anywhere.
validate_link_Search(l, mode) ==
    \E k \in 0..Len(l) :
        LET r == SubSeq(l, k + 1, Len(l))
        IN  CASE mode = "1" -> YOUTUBE_VIDEO_REGEX(r)
              [] mode = "2" -> YOUTUBE_PLAYLIST_REGEX(r)
              [] mode = "3" -> YOUTUBE_CHANNEL_REGEX(r)
              [] OTHER -> FALSE

validate_link(l, mode) ==
    CASE mode = "1" -> YOUTUBE_VIDEO_REGEX(l)
      [] mode = "2" -> YOUTUBE_PLAYLIST_REGEX(l)
      [] mode = "3" -> YOUTUBE_CHANNEL_REGEX(l)
      [] OTHER -> FALSE

\* -------------------------------------------------------- format_duration
Digit(d) == <<"0", "1", "2", "3", "4", "5", "6", "7", "8", "9">>[d + 1]

\* The format spec d: decimal digits, no padding.
RECURSIVE FormatD(_)
FormatD(n) ==
    IF n < 10 THEN <<Digit(n)>> ELSE FormatD(n \div 10) \o <<Digit(n % 10)>>

\* Mutant: the width is dropped from the format spec.
Format02D_Unpadded(n) == FormatD(n)

\* The format spec 02d: decimal digits, zero-padded to width 2.
Format02D(n) == IF n < 10 THEN <<"0">> \o FormatD(n) ELSE FormatD(n)

divmod(a, b) == <<a \div b, a % b>>

Unknown == <<"U", "n", "k", "n", "o", "w", "n">>

format_duration(seconds) ==
    IF seconds = None
    THEN Unknown
    ELSE LET ms == divmod(seconds[1], 60)
             hm == divmod(ms[1], 60)
             h == hm[1]
             m == hm[2]
             s == ms[2]
         IN  IF h # 0
             THEN FormatD(h) \o <<":">> \o Format02D(m) \o <<":">> \o Format02D(s)
             ELSE FormatD(m) \o <<":">> \o Format02D(s)

\* ------------------------------------------------------- the extractor
\* YoutubeDL.extract_info is external: it raises, returns None, or returns a
\* dictionary.  An outcome is [kind |-> "raise", exc] or [kind |-> "return", value].
Raises(exc) == [kind |-> "raise", exc |-> exc]
Returns(value) == [kind |-> "return", value |-> value]

BoundedSeq(S, n) == UNION {[1..k -> S] : k \in 0..n}

\* The entries of a flat listing: with a url and an id, with an id only, with
\* neither.
ListingEntries ==
    { [url |-> "vidA", id |-> "vidC"], [id |-> "vidB"], [ie_key |-> "Youtube"] }

Listings == BoundedSeq(ListingEntries, MaxEntries)

\* What a flat extraction of a playlist or channel may return.
ListingInfos == {[entries |-> es] : es \in Listings} \cup {[title |-> "Demo"]}

\* What a full extraction of one video at url u may return.
VideoDicts(u) ==
    { [title |-> "Demo", webpage_url |-> u, thumbnail |-> "thumb.jpg"],
      [title |-> "Demo", url |-> u, thumbnail |-> "", duration |-> 3725],
      [id |-> u[Len(u)], duration |-> 0] }

EmptyDict == <<>>

ExtractOutcomes(u, listing) ==
    {Raises("Exception"), Returns(None)}
    \cup {Returns(Some(d)) :
            d \in IF listing THEN ListingInfos ELSE VideoDicts(u) \cup {EmptyDict}}

\* The truth value of a returned dictionary: None and {} are false.
Truthy(value) == value # None /\ DOMAIN value[1] # {}

\* ------------------------------------------------------ send_video_info
\* video.get('webpage_url') or video.get('url') or "https://youtu.be/" + video.get('id', '')
VideoUrl(video) ==
    IF "webpage_url" \in DOMAIN video /\ video.webpage_url # <<>>
    THEN video.webpage_url
    ELSE IF "url" \in DOMAIN video /\ video.url # <<>>
         THEN video.url
         ELSE <<"https://", "youtu.be/">>
              \o (IF "id" \in DOMAIN video THEN <<video.id>> ELSE <<>>)

VideoTitle(video) == IF "title" \in DOMAIN video THEN video.title ELSE "Unknown Title"

VideoDuration(video) == IF "duration" \in DOMAIN video THEN Some(video.duration) ELSE None

\* The caption's title, link and duration lines.  Its date line (format_date)
\* takes no part in the properties below and is left out.
Caption(video) ==
    [title |-> VideoTitle(video),
     link |-> VideoUrl(video),
     duration |-> format_duration(VideoDuration(video))]

\* Mutant: `if thumbnail is not None:`, an empty thumbnail goes out as a photo.
HasThumbnail_KeyOnly(video) == "thumbnail" \in DOMAIN video

\* `if thumbnail:` : the key is present and its value is not empty.
HasThumbnail(video) == "thumbnail" \in DOMAIN video /\ video.thumbnail # ""

\* The call send_video_info makes to the bot.
MessagingCall(video) ==
    IF HasThumbnail(video)
    THEN [ev |-> "send_photo", chat_id |-> TELEGRAM_CHAT_ID,
          photo |-> video.thumbnail, caption |-> Caption(video)]
    ELSE [ev |-> "send_message", chat_id |-> TELEGRAM_CHAT_ID,
          text |-> Caption(video)]

\* What bot.send_photo / bot.send_message may do: complete, or raise the
\* library's error class.
MessagingOutcomes == {"ok", "TelegramError"}

\* ----------------------------------------------------------- exceptions
\* Mutant: `except:` in place of `except Exception:`.
IsInstance_BareExcept(exc, cls) ==
    \/ exc = cls
    \/ cls = "BaseException"
    \/ cls = "Exception"

\* issubclass(exc, cls) in Python's hierarchy: TelegramError < Exception <
\* BaseException, KeyboardInterrupt < BaseException.
IsInstance(exc, cls) ==
    \/ exc = cls
    \/ cls = "BaseException"
    \/ cls = "Exception" /\ exc = "TelegramError"

TopHandler == [cls |-> "KeyboardInterrupt", at |-> "top"]

\* The except clauses around the call the program is blocked in, innermost first.
Handlers(p) ==
    CASE p = "Fetching" -> <<[cls |-> "Exception", at |-> "first_call"], TopHandler>>
      [] p = "FetchingEntries" -> <<[cls |-> "Exception", at |-> "entry_call"], TopHandler>>
      [] p = "Sending" -> <<[cls |-> "TelegramError", at |-> "send"], TopHandler>>
      [] OTHER -> <<TopHandler>>

\* The except clause that catches exc raised at p, or "uncaught".
CatchSite(exc, p) ==
    LET hs == Handlers(p)
        hits == {i \in 1..Len(hs) : IsInstance(exc, hs[i].cls)}
    IN  IF hits = {} THEN "uncaught"
        ELSE hs[CHOOSE i \in hits : \A j \in hits : i <= j].at

\* --------------------------------------------------------- continuations
\* Each operator below is the code from one point of the program up to the next
\* blocking call; t is the trace so far.
Cont(p, es, i, a, vs, er, ix, t, ex) ==
    /\ pc' = p
    /\ entries' = es
    /\ ei' = i
    /\ acc' = a
    /\ videos' = vs
    /\ error' = er
    /\ idx' = ix
    /\ trace' = t
    /\ exitStatus' = ex

\* `continue`, or the end of the loop body: back to the top of while True.
ToMenu(vs, er, t) == Cont("MenuPrompt", <<>>, 0, <<>>, vs, er, 0, t, exitStatus)

\* sys.exit(status)
Exit(status, t) ==
    Cont("Exited", entries, ei, acc, videos, error, idx,
         t \o <<EvExit(status)>>, Some(status))

\* An exception nothing catches: the interpreter prints a traceback and exits 1.
Crash(t) ==
    Cont("Exited", entries, ei, acc, videos, error, idx,
         t \o <<EvTraceback, EvExit(1)>>, Some(1))

\* The body of the for loop for video number i, up to the bot call.
StartSend(vs, i, t) ==
    Cont("Sending", <<>>, 0, <<>>, Some(vs), None, i,
         t \o <<EvPrint("Sending: [" \o VideoTitle(vs[i]) \o "]"),
                EvNotify(vs[i], i), MessagingCall(vs[i])>>,
         exitStatus)

\* Mutant: the completion line is printed inside the for loop.
NextSend_SummaryInLoop(vs, i, t) ==
    IF i <= Len(vs)
    THEN StartSend(vs, i, IF i > 1 THEN t \o <<EvPrint(DoneLine)>> ELSE t)
    ELSE ToMenu(Some(vs), None, t \o <<EvPrint(DoneLine)>>)

\* The for loop's next iteration, or the completion line after the last one.
NextSend(vs, i, t) ==
    IF i <= Len(vs)
    THEN StartSend(vs, i, t)
    ELSE ToMenu(Some(vs), None, t \o <<EvPrint(DoneLine)>>)

\* main() with the pair fetch_videos_info returned.
MainAfterFetch(vs, er, t) ==
    IF er # None
    THEN ToMenu(vs, er, t \o <<EvPrint(er[1])>>)
    ELSE NextSend(vs[1], 1, t)

\* The per-video URL of a listing entry; None when it has neither url nor id.
video_url(e) ==
    IF "url" \in DOMAIN e THEN Some(<<"https://", "youtu.be/", e.url>>)
    ELSE IF "id" \in DOMAIN e THEN Some(<<"https://", "youtu.be/", e.id>>)
    ELSE None

\* The first entry at or after i that has a URL; Len(es) + 1 when none has.
RECURSIVE NextCallable(_, _)
NextCallable(es, i) ==
    IF i > Len(es) \/ video_url(es[i]) # None THEN i ELSE NextCallable(es, i + 1)

\* The loop over the entries from entry i on, with a the records appended so far.
FetchLoop(es, i, a, t) ==
    LET j == NextCallable(es, i)
    IN  IF j <= Len(es)
        THEN Cont("FetchingEntries", es, j, a, videos, error, 0,
                  t \o <<EvExtract(video_url(es[j])[1], TRUE, j)>>, exitStatus)
        ELSE IF a = <<>>
             THEN MainAfterFetch(None, Some(NoVideosLine), t)
             ELSE MainAfterFetch(Some(a), None, t)

\* Mutant: the title check of the single-video branch is missing.
AfterFirstCall_NoTitleCheck(info, t) ==
    IF info = None
    THEN MainAfterFetch(None, Some(NoVideosLine), t)
    ELSE IF choice = "1"
         THEN MainAfterFetch(Some(<<info[1]>>), None, t)
         ELSE LET es == IF "entries" \in DOMAIN info[1] THEN info[1].entries ELSE <<>>
              IN  IF es = <<>>
                  THEN MainAfterFetch(None, Some(NoVideosLine), t)
                  ELSE FetchLoop(es, 1, <<>>,
                         t \o <<EvPrint("Found " \o ToString(Len(es)) \o " videos in "
                                  \o (IF choice = "2" THEN "playlist" ELSE "channel"))>>)

\* fetch_videos_info after its first extract_info returned info.
AfterFirstCall(info, t) ==
    IF info = None
    THEN MainAfterFetch(None, Some(NoVideosLine), t)
    ELSE IF choice = "1"
         THEN IF "title" \notin DOMAIN info[1]
              THEN MainAfterFetch(None, Some(NoVideosLine), t)
              ELSE MainAfterFetch(Some(<<info[1]>>), None, t)
         ELSE LET es == IF "entries" \in DOMAIN info[1] THEN info[1].entries ELSE <<>>
              IN  IF es = <<>>
                  THEN MainAfterFetch(None, Some(NoVideosLine), t)
                  ELSE FetchLoop(es, 1, <<>>,
                         t \o <<EvPrint("Found " \o ToString(Len(es)) \o " videos in "
                                  \o (IF choice = "2" THEN "playlist" ELSE "channel"))>>)

\* Mutant: videos.insert(0, video_info) in place of videos.append(video_info).
AfterEntryCall_Prepend(value, t) ==
    FetchLoop(entries, ei + 1,
              IF Truthy(value) THEN <<value[1]>> \o acc ELSE acc, t)

\* fetch_videos_info after a per-entry extract_info returned value.
AfterEntryCall(value, t) ==
    FetchLoop(entries, ei + 1,
              IF Truthy(value) THEN Append(acc, value[1]) ELSE acc, t)

\* Mutant: `break` in place of `continue` after a failed send.
NotifyReturned_Break(ok, t) ==
    IF ~ok
    THEN ToMenu(videos, None, t \o <<EvNotifyReturn(ok), EvPrint(RetryLine), EvPrint(DoneLine)>>)
    ELSE Cont("Sleeping", <<>>, 0, <<>>, videos, error, idx,
              t \o <<EvNotifyReturn(ok), EvSleep>>, exitStatus)

\* main() after send_video_info returned ok.
NotifyReturned(ok, t) ==
    IF ~ok
    THEN NextSend(videos[1], idx + 1, t \o <<EvNotifyReturn(ok), EvPrint(RetryLine)>>)
    ELSE Cont("Sleeping", <<>>, 0, <<>>, videos, error, idx,
              t \o <<EvNotifyReturn(ok), EvSleep>>, exitStatus)

\* Mutant: the except clause of the first call returns the other message.
Raise_NoVideos(exc, t) ==
    LET site == CatchSite(exc, pc)
    IN  CASE site = "first_call" -> MainAfterFetch(None, Some(NoVideosLine), t)
          [] site = "entry_call" -> FetchLoop(entries, ei + 1, acc, t)
          [] site = "send" -> NotifyReturned(FALSE, t)
          [] site = "top" -> Exit(0, t \o <<EvPrint(InterruptByeLine)>>)
          [] OTHER -> Crash(t)

\* exc raised by the call the program is blocked in: the innermost except
\* clause that matches runs, then the code after it.
Raise(exc, t) ==
    LET site == CatchSite(exc, pc)
    IN  CASE site = "first_call" -> MainAfterFetch(None, Some(InvalidLinkLine), t)
          [] site = "entry_call" -> FetchLoop(entries, ei + 1, acc, t)
          [] site = "send" -> NotifyReturned(FALSE, t)
          [] site = "top" -> Exit(0, t \o <<EvPrint(InterruptByeLine)>>)
          [] OTHER -> Crash(t)

\* fetch_videos_info up to its first extract_info call.
StartFetch(l, mode, t) ==
    Cont("Fetching", <<>>, 0, <<>>, None, None, 0,
         t \o <<EvPrint(FetchingLine), EvExtract(l, mode \in {"2", "3"}, 0)>>,
         exitStatus)

\* ------------------------------------------------------------------ state
Init ==
    /\ pc = "MenuPrompt"
    /\ choice = ""
    /\ link = <<>>
    /\ entries = <<>>
    /\ ei = 0
    /\ acc = <<>>
    /\ videos = None
    /\ error = None
    /\ idx = 0
    /\ trace = <<>>
    /\ exitStatus = None
    /\ interrupted = FALSE
    /\ badChoices = 0

\* ---------------------------------------------------------------- actions
\* The top of while True: print(MENU), then input_choice() blocks in input().
\* The locals of main are rebound before any use in every iteration.
PrintMenu ==
    /\ pc = "MenuPrompt"
    /\ pc' = "ChoicePending"
    /\ trace' = <<EvPrint(MENU)>>
    /\ choice' = ""
    /\ link' = <<>>
    /\ videos' = None
    /\ error' = None
    /\ badChoices' = 0
    /\ UNCHANGED <<entries, ei, acc, idx, exitStatus, interrupted>>

\* input() of input_choice returns raw.
EnterChoice ==
    /\ pc = "ChoicePending"
    /\ \E raw \in ChoiceInputs :
         LET c == Strip(raw)
         IN  IF Len(c) = 1 /\ c[1] \in {"0", "1", "2", "3"}
             THEN /\ choice' = c[1]
                  /\ badChoices' = badChoices
                  /\ IF c[1] = "0"
                     THEN Exit(0, trace \o <<EvPrint(ByeLine)>>)
                     ELSE Cont("LinkPrompt", entries, ei, acc, videos, error, idx,
                               trace, exitStatus)
             ELSE /\ badChoices < MaxBadChoices
                  /\ badChoices' = badChoices + 1
                  /\ choice' = choice
                  /\ Cont("ChoicePending", entries, ei, acc, videos, error, idx,
                          trace \o <<EvPrint(InvalidChoiceLine)>>, exitStatus)
    /\ UNCHANGED <<link, interrupted>>

\* input() of input_link returns raw; the link is validated.
EnterLink ==
    /\ pc = "LinkPrompt"
    /\ \E raw \in Links :
         LET l == Strip(raw)
         IN  /\ link' = l
             /\ IF ~validate_link(l, choice)
                THEN ToMenu(videos, error, trace \o <<EvPrint(InvalidLinkLine)>>)
                ELSE StartFetch(l, choice, trace)
    /\ UNCHANGED <<choice, interrupted, badChoices>>

\* The first extract_info call ends.
FirstCallEnds ==
    /\ pc = "Fetching"
    /\ \E o \in ExtractOutcomes(link, choice \in {"2", "3"}) :
         LET t == trace \o <<EvExtractResult(0, o)>>
         IN  IF o.kind = "raise" THEN Raise(o.exc, t) ELSE AfterFirstCall(o.value, t)
    /\ UNCHANGED <<choice, link, interrupted, badChoices>>

\* The extract_info call for entry ei ends.
EntryCallEnds ==
    /\ pc = "FetchingEntries"
    /\ \E o \in ExtractOutcomes(video_url(entries[ei])[1], FALSE) :
         LET t == trace \o <<EvExtractResult(ei, o)>>
         IN  IF o.kind = "raise" THEN Raise(o.exc, t) ELSE AfterEntryCall(o.value, t)
    /\ UNCHANGED <<choice, link, interrupted, badChoices>>

\* bot.send_photo / bot.send_message ends.
SendEnds ==
    /\ pc = "Sending"
    /\ \E o \in MessagingOutcomes :
         LET t == trace \o <<EvTelegramResult(o)>>
         IN  IF o = "ok" THEN NotifyReturned(TRUE, t) ELSE Raise(o, t)
    /\ UNCHANGED <<choice, link, interrupted, badChoices>>

\* time.sleep(0.5) ends.
SleepEnds ==
    /\ pc = "Sleeping"
    /\ NextSend(videos[1], idx + 1, trace)
    /\ UNCHANGED <<choice, link, interrupted, badChoices>>

\* The user's interrupt: KeyboardInterrupt is raised where the program is.
Interrupt ==
    /\ pc # "Exited"
    /\ interrupted' = TRUE
    /\ Raise("KeyboardInterrupt", trace)
    /\ UNCHANGED <<choice, link, badChoices>>

Step ==
    \/ PrintMenu
    \/ EnterChoice
    \/ EnterLink
    \/ FirstCallEnds
    \/ EntryCallEnds
    \/ SendEnds
    \/ SleepEnds

Next == Step \/ Interrupt

Spec == Init /\ [][Next]_vars

\* Every external call returns: no step is postponed for ever.
FairSpec == Spec /\ WF_vars(Step)

\* A specification for format_duration: the program has fetched a playlist of
\* two videos, has sent the first and sleeps before the second, whose duration
\* is any of 0..MaxSeconds or is missing; SleepEnds then formats it.
FmtLink == <<"youtube.com/playlist?list=", "PL1">>
FmtUrl == <<"https://", "youtu.be/", "vidB">>
FmtFirst == [title |-> "Demo", webpage_url |-> FmtUrl, thumbnail |-> "thumb.jpg"]
FmtSeconds ==
    {[title |-> "Demo", webpage_url |-> FmtUrl, duration |-> n] : n \in 0..MaxSeconds}
    \cup {[title |-> "Demo", webpage_url |-> FmtUrl]}

FmtInit ==
    \E v \in FmtSeconds :
        /\ pc = "Sleeping"
        /\ choice = "2"
        /\ link = FmtLink
        /\ entries = <<>>
        /\ ei = 0
        /\ acc = <<>>
        /\ videos = Some(<<FmtFirst, v>>)
        /\ error = None
        /\ idx = 1
        /\ trace =
             << EvPrint(MENU), EvPrint(FetchingLine), EvExtract(FmtLink, TRUE, 0),
                EvExtractResult(0, Returns(Some([entries |-> <<[id |-> "vidB"], [id |-> "vidB"]>>]))),
                EvPrint("Found 2 videos in playlist"),
                EvExtract(FmtUrl, TRUE, 1), EvExtractResult(1, Returns(Some(FmtFirst))),
                EvExtract(FmtUrl, TRUE, 2), EvExtractResult(2, Returns(Some(v))),
                EvPrint("Sending: [Demo]"), EvNotify(FmtFirst, 1), MessagingCall(FmtFirst),
                EvTelegramResult("ok"), EvNotifyReturn(TRUE), EvSleep >>
        /\ exitStatus = None
        /\ interrupted = FALSE
        /\ badChoices = 0

SpecFmt == FmtInit /\ [][Next]_vars

\* ============================================================ properties
\* Readings of the trace.
Positions(kind) == {k \in 1..Len(trace) : trace[k].ev = kind}
Count(kind) == Cardinality(Positions(kind))
PrintedAt(line) == {k \in Positions("print") : trace[k].line = line}
MessagingPositions == Positions("send_photo") \cup Positions("send_message")
Attempts == SelectSeq(trace, LAMBDA e : e.ev = "send_video_info")

\* fetch_videos_info has returned to main in this iteration.
FetchReturned == videos # None \/ error # None

\* The outcome of the first extract_info call of this iteration (when it ended).
FirstEnded == \E k \in Positions("extract_result") : trace[k].entry = 0
FirstOutcome ==
    trace[CHOOSE k \in Positions("extract_result") : trace[k].entry = 0].outcome

\* The first call returned a listing with at least one entry.
HasListing ==
    /\ FirstEnded
    /\ FirstOutcome.kind = "return"
    /\ FirstOutcome.value # None
    /\ "entries" \in DOMAIN FirstOutcome.value[1]
    /\ FirstOutcome.value[1].entries # <<>>

Listing == FirstOutcome.value[1].entries

CallsFor(j) == {k \in Positions("extract_info") : trace[k].entry = j}
ResultsFor(j) == {k \in Positions("extract_result") : trace[k].entry = j}

\* Entry j's second-phase call returned a record.
Yielded(j) ==
    \E k \in ResultsFor(j) :
        /\ trace[k].outcome.kind = "return"
        /\ trace[k].outcome.value # None
        /\ trace[k].outcome.value[1] # EmptyDict

RecordOf(j) == trace[CHOOSE k \in ResultsFor(j) : TRUE].outcome.value[1]

RECURSIVE YieldedUpTo(_)
YieldedUpTo(j) ==
    IF j = 0 THEN <<>>
    ELSE YieldedUpTo(j - 1) \o (IF Yielded(j) THEN <<RecordOf(j)>> ELSE <<>>)

\* C1: once a Playlist or Channel fetch whose listing was not empty has returned,
\* every entry with a url or an id was fetched exactly once and every entry with
\* neither was never fetched; the result is the records the second-phase calls
\* returned, in listing order, and NoVideosFound when there is none.
C1_CollectionResult ==
    (choice \in {"2", "3"} /\ FetchReturned /\ HasListing) =>
        LET es == Listing
            got == YieldedUpTo(Len(es))
        IN  /\ \A j \in 1..Len(es) :
                  LET calls == Cardinality(CallsFor(j))
                  IN  /\ calls <= 1
                      /\ ("url" \notin DOMAIN es[j] /\ "id" \notin DOMAIN es[j])
                            => calls = 0
                      /\ ("url" \in DOMAIN es[j] \/ "id" \in DOMAIN es[j])
                            => calls = 1
            /\ \A k \in Positions("extract_info") : trace[k].entry \in 0..Len(es)
            /\ IF got = <<>>
               THEN videos = None /\ error = Some(NoVideosLine)
               ELSE videos = Some(got) /\ error = None

\* A listing of two entries: the first call raised, the second returned a record.
C1_Witness ==
    /\ choice \in {"2", "3"} /\ FetchReturned /\ HasListing
    /\ Len(Listing) = 2
    /\ \E k \in ResultsFor(1) : trace[k].outcome.kind = "raise"
    /\ Yielded(2)
    /\ videos # None /\ Len(videos[1]) = 1

\* C2: the notify attempts of an iteration are the records of its fetch result,
\* in order, each once: at every moment the attempts made are an initial part
\* of the result, one messaging call each, and when the iteration is over they
\* are the whole result, whatever the sends returned.
C2_AttemptsAreResult ==
    /\ videos = None => Attempts = <<>>
    /\ videos # None =>
          /\ Len(Attempts) <= Len(videos[1])
          /\ \A n \in 1..Len(Attempts) :
                Attempts[n].video = videos[1][n] /\ Attempts[n].n = n
          /\ Cardinality(MessagingPositions) = Len(Attempts)
          /\ pc = "MenuPrompt" => Len(Attempts) = Len(videos[1])

\* Two records, the first send failed, both were attempted.
C2_Witness ==
    /\ pc = "MenuPrompt" /\ videos # None /\ Len(videos[1]) = 2
    /\ Len(Attempts) = 2
    /\ \E k \in Positions("send_video_info_return") :
          /\ ~trace[k].ok
          /\ \A k2 \in Positions("send_video_info_return") : k <= k2

\* The links, after strip(), that each mode's pattern accepts.
AcceptedLinks(mode) ==
    CASE mode = "1" -> { <<"https://", "www.", "youtube.com/watch?v=", "abc123">>,
                         <<"youtu.be/", "abc123">>,
                         <<"www.", "youtu.be/", "abc123", "?x y">> }
      [] mode = "2" -> { <<"youtube.com/playlist?list=", "PL1">> }
      [] mode = "3" -> { <<"http://", "youtube.com/channel/", "UC1">> }
      [] OTHER -> {}

FailureLines == {InvalidLinkLine, NoVideosLine}
FailurePrints == {k \in Positions("print") : trace[k].line \in FailureLines}

\* The iteration is over and ended with a rejected link or a fetch failure.
EndedInFailure ==
    /\ pc = "MenuPrompt" /\ trace # <<>>
    /\ Count("extract_info") = 0 \/ error # None

\* C3: an extraction call is made only for a link the chosen mode's pattern
\* accepts; a notify attempt is made only after fetch returned a non-empty list;
\* an iteration that ends with a rejected link or a fetch failure has printed
\* exactly one failure line, as its last output, and has sent nothing.
C3_Gates ==
    /\ Count("extract_info") > 0 => link \in AcceptedLinks(choice)
    /\ Count("send_video_info") + Cardinality(MessagingPositions) > 0 =>
          videos # None /\ videos[1] # <<>> /\ error = None
    /\ EndedInFailure =>
          /\ FailurePrints = {Len(trace)}
          /\ Count("send_video_info") = 0
          /\ MessagingPositions = {}
          /\ PrintedAt(DoneLine) = {}

\* A channel whose two entries both failed: NoVideosFound, nothing sent.
C3_Witness ==
    /\ EndedInFailure
    /\ choice = "3"
    /\ Count("extract_info") = 3
    /\ error = Some(NoVideosLine)

\* C4 as stated: in Playlist or Channel mode, a first call that raises or that
\* returns a listing with no entries gives NoVideosFound.
C4_AsStated ==
    (choice \in {"2", "3"} /\ FetchReturned /\ ~HasListing) =>
        videos = None /\ error = Some(NoVideosLine)

\* C4 as the code has it: in Playlist or Channel mode, a first call that raises
\* gives InvalidLink; one that returns nothing, or a listing with no entries,
\* gives NoVideosFound.
C4_FirstCallFailure ==
    (choice \in {"2", "3"} /\ FetchReturned /\ ~HasListing) =>
        /\ videos = None
        /\ Count("extract_info") = 1
        /\ error = IF FirstOutcome.kind = "raise"
                   THEN Some(InvalidLinkLine)
                   ELSE Some(NoVideosLine)

\* A playlist whose listing call raised.
C4_Witness ==
    /\ choice = "2" /\ FetchReturned /\ FirstEnded
    /\ FirstOutcome.kind = "raise"
    /\ pc = "MenuPrompt"

\* A playlist whose listing has no entries.
C4_WitnessEmpty ==
    /\ choice = "2" /\ FetchReturned /\ FirstEnded
    /\ FirstOutcome = Returns(Some([entries |-> <<>>]))

\* C5: in SingleVideo mode fetch makes one extraction call, and returns
\* InvalidLink if it raised, NoVideosFound if it returned nothing or a record
\* without a title, and otherwise the list of that one record.
C5_SingleVideo ==
    (choice = "1" /\ FetchReturned) =>
        /\ Count("extract_info") = 1
        /\ FirstEnded
        /\ IF FirstOutcome.kind = "raise"
           THEN videos = None /\ error = Some(InvalidLinkLine)
           ELSE IF FirstOutcome.value = None \/ "title" \notin DOMAIN FirstOutcome.value[1]
                THEN videos = None /\ error = Some(NoVideosLine)
                ELSE videos = Some(<<FirstOutcome.value[1]>>) /\ error = None

\* The extractor returned a record that has no title.
C5_Witness ==
    /\ choice = "1" /\ FetchReturned /\ FirstEnded
    /\ FirstOutcome.kind = "return" /\ FirstOutcome.value # None
    /\ FirstOutcome.value[1] # EmptyDict
    /\ "title" \notin DOMAIN FirstOutcome.value[1]
    /\ error = Some(NoVideosLine)

\* C6: every notify makes one call to the fixed chat, the photo call exactly
\* when the record's thumbnail is present and not empty and the text call
\* otherwise; it returns True when the call completes and False when the
\* messaging layer fails, and nothing is raised out of it (no traceback).
C6_Notify ==
    /\ \A k \in Positions("send_video_info") :
          /\ k + 1 \in MessagingPositions
          /\ trace[k + 1].chat_id = TELEGRAM_CHAT_ID
          /\ trace[k + 1].ev = "send_photo" <=>
                ("thumbnail" \in DOMAIN trace[k].video /\ trace[k].video.thumbnail # "")
          /\ trace[k + 1].ev = "send_photo" => trace[k + 1].photo = trace[k].video.thumbnail
          /\ \A k2 \in MessagingPositions : k2 > k + 1 =>
                \E k3 \in Positions("send_video_info") : k < k3 /\ k3 < k2
          /\ (k + 2 <= Len(trace) /\ trace[k + 2].ev = "telegram_result") =>
                /\ k + 3 <= Len(trace)
                /\ trace[k + 3] = EvNotifyReturn(trace[k + 2].outcome = "ok")
    /\ \A k \in MessagingPositions : k > 1 /\ trace[k - 1].ev = "send_video_info"
    /\ \A k \in Positions("telegram_result") : k - 1 \in MessagingPositions
    /\ Count("traceback") = 0
    /\ exitStatus \in {None, Some(0)}

\* A record with an empty thumbnail went out as text, and the send failed.
C6_Witness ==
    \E k \in Positions("send_video_info") :
        /\ "thumbnail" \in DOMAIN trace[k].video
        /\ trace[k].video.thumbnail = ""
        /\ k + 3 <= Len(trace)
        /\ trace[k + 1].ev = "send_message"
        /\ trace[k + 2] = EvTelegramResult("TelegramError")
        /\ trace[k + 3] = EvNotifyReturn(FALSE)

\* C7: once the user has interrupted, in whatever state, the program has
\* printed the farewell and exited with status 0.
C7_Interrupt ==
    interrupted =>
        /\ pc = "Exited"
        /\ exitStatus = Some(0)
        /\ Len(trace) >= 2
        /\ trace[Len(trace) - 1] = EvPrint(InterruptByeLine)
        /\ trace[Len(trace)] = EvExit(0)

\* The interrupt came during the extraction call for a listing entry.
C7_Witness ==
    /\ interrupted /\ pc = "Exited"
    /\ Len(trace) >= 3
    /\ trace[Len(trace) - 2].ev = "extract_info"
    /\ trace[Len(trace) - 2].entry >= 1

\* The interrupt came during a bot call.
C7_WitnessSend ==
    /\ interrupted /\ pc = "Exited"
    /\ Len(trace) >= 3
    /\ Len(trace) - 2 \in MessagingPositions

\* The value of a string of decimal digits; -1 when a character is no digit.
DigitValue(c) ==
    CASE c = "0" -> 0 [] c = "1" -> 1 [] c = "2" -> 2 [] c = "3" -> 3 [] c = "4" -> 4
      [] c = "5" -> 5 [] c = "6" -> 6 [] c = "7" -> 7 [] c = "8" -> 8 [] c = "9" -> 9
      [] OTHER -> -1

AllDigits(str) == str # <<>> /\ \A i \in 1..Len(str) : DigitValue(str[i]) >= 0

RECURSIVE ValueOf(_)
ValueOf(str) ==
    IF str = <<>> THEN 0
    ELSE 10 * ValueOf(SubSeq(str, 1, Len(str) - 1)) + DigitValue(str[Len(str)])

\* str is n written with no padding.
Unpadded(str, n) ==
    AllDigits(str) /\ ValueOf(str) = n /\ (Len(str) > 1 => str[1] # "0")

\* str is n written in two digits (n < 100).
TwoDigits(str, n) == AllDigits(str) /\ Len(str) = 2 /\ ValueOf(str) = n

\* out is the rendering C8 gives of the optional duration.
Renders(seconds, out) ==
    IF seconds = None
    THEN out = <<"U", "n", "k", "n", "o", "w", "n">>
    ELSE LET n == seconds[1]
             h == n \div 3600
             m == (n \div 60) % 60
             s == n % 60
             colons == {i \in 1..Len(out) : out[i] = ":"}
         IN  /\ n = 0 => out = <<"0", ":", "0", "0">>
             /\ n = 65 => out = <<"1", ":", "0", "5">>
             /\ n = 3725 => out = <<"1", ":", "0", "2", ":", "0", "5">>
             /\ IF h > 0
                THEN \E i, j \in colons :
                        /\ colons = {i, j} /\ i < j
                        /\ Unpadded(SubSeq(out, 1, i - 1), h)
                        /\ TwoDigits(SubSeq(out, i + 1, j - 1), m)
                        /\ TwoDigits(SubSeq(out, j + 1, Len(out)), s)
                ELSE \E i \in colons :
                        /\ colons = {i}
                        /\ Unpadded(SubSeq(out, 1, i - 1), m)
                        /\ TwoDigits(SubSeq(out, i + 1, Len(out)), s)

CaptionAt(k) == IF trace[k].ev = "send_photo" THEN trace[k].caption ELSE trace[k].text

\* C8: the duration line of every caption is "Unknown" for a record without a
\* duration, and otherwise H:MM:SS when h > 0 and M:SS when h = 0, with
\* h = n div 3600, m = (n div 60) mod 60, s = n mod 60.
C8_FormatDuration ==
    \A k \in MessagingPositions :
        Renders(IF "duration" \in DOMAIN trace[k - 1].video
                THEN Some(trace[k - 1].video.duration) ELSE None,
                CaptionAt(k).duration)

\* 3725 seconds went out as 1:02:05.
C8_Witness ==
    \E k \in MessagingPositions :
        /\ "duration" \in DOMAIN trace[k - 1].video
        /\ trace[k - 1].video.duration = 3725
        /\ CaptionAt(k).duration = <<"1", ":", "0", "2", ":", "0", "5">>
        /\ trace[k - 1].n = 2

\* C9 as stated: between every two consecutive notify attempts of an iteration
\* the program sleeps.
C9_DelayBetweenAttempts ==
    \A k1, k2 \in Positions("send_video_info") :
        (k1 < k2 /\ trace[k2].n = trace[k1].n + 1) =>
            \E d \in Positions("sleep") : k1 < d /\ d < k2

\* Done has been printed in this iteration.
SummaryPrinted == PrintedAt(DoneLine) # {}

\* C10 (safety part): the completion line is printed at most once, only when
\* fetch succeeded and every record has had its attempt, as the last output;
\* an iteration that is over has printed it exactly when its fetch succeeded.
C10_Summary ==
    /\ Cardinality(PrintedAt(DoneLine)) <= 1
    /\ SummaryPrinted =>
          /\ videos # None /\ error = None
          /\ Len(Attempts) = Len(videos[1])
          /\ Count("send_video_info_return") = Len(videos[1])
          /\ \A k \in Positions("send_video_info") \cup Positions("send_video_info_return")
                      \cup Positions("sleep") \cup MessagingPositions :
                \A d \in PrintedAt(DoneLine) : k < d
    /\ (pc = "MenuPrompt" /\ trace # <<>>) => (SummaryPrinted <=> videos # None)
    /\ EndedInFailure => ~SummaryPrinted

\* C10: with every external call returning, an iteration that reached the link
\* prompt comes back to the menu prompt unless the user interrupts it; and the
\* completion line is printed as C10_Summary says.
C10_IterationCompletes ==
    /\ []C10_Summary
    /\ (pc = "LinkPrompt") ~> (pc = "MenuPrompt" \/ interrupted)

\* Two records attempted, a send failed, the completion line printed.
C10_Witness ==
    /\ pc = "MenuPrompt" /\ SummaryPrinted
    /\ videos # None /\ Len(videos[1]) = 2
    /\ \E k \in Positions("send_video_info_return") : ~trace[k].ok

====
